---- MODULE Spec2Model ----
(***************************************************************************)
(* Model of src/db_config.py: the lazily initialised shared connection     *)
(* pool (get_pool), the scoped connection provider (connection_scope) and  *)
(* the integer environment resolver (_env_int).                            *)
(*                                                                         *)
(* Strings that the code inspects (environment values) are sequences of    *)
(* one-character strings, so that parsing and comparison are computed.     *)
(***************************************************************************)
EXTENDS Integers, Sequences, FiniteSets, TLC

\* ---------------------------------------------------------------- bounds
\* Number of threads calling into the module concurrently.
NumThreads == 2
\* Number of operations (get_pool, connection_scope, an assignment to
\* os.environ) the threads start in one run.
MaxCalls == 3
\* Longest pool-size environment string enumerated character by character.
MaxLen == 2
\* Number of connections the shared pool can lend at the same time.
NumPoolConns == 1
\* Most rows and most columns of a query result.
MaxRows == 2
MaxCols == 2

Threads == 1..NumThreads
ConnIds == 1..NumPoolConns

\* ------------------------------------------------------- python values
\* os.getenv(name) of a variable that is not set.
None == <<"None">>
\* _POOL before the pool is installed.
NoPool == 0
\* _POOL_LOCK when no thread holds it.
Unlocked == 0
\* "no exception"
NoExc == "NoExc"

Digits == {"0", "1", "7"}
Chars == Digits \cup {"-", "+", " ", "x", "_"}

DigitVal(c) == CASE c = "0" -> 0 [] c = "1" -> 1 [] c = "7" -> 7 [] OTHER -> 0

RECURSIVE StringsUpTo(_)
StringsUpTo(n) ==
    IF n = 0 THEN {<<>>}
    ELSE LET shorter == StringsUpTo(n - 1)
         IN  shorter \cup {Append(s, c) : s \in {x \in shorter : Len(x) = n - 1}, c \in Chars}

\* str.strip() for the whitespace of the alphabet.
RECURSIVE lstrip(_)
lstrip(s) == IF s # <<>> /\ Head(s) = " " THEN lstrip(Tail(s)) ELSE s

RECURSIVE rstrip(_)
rstrip(s) == IF s # <<>> /\ s[Len(s)] = " " THEN rstrip(SubSeq(s, 1, Len(s) - 1)) ELSE s

strip(s) == rstrip(lstrip(s))

\* The digits of a literal: digits, with single underscores between digits.
RECURSIVE DigitsOk(_, _)
DigitsOk(s, prevDigit) ==
    IF s = <<>> THEN prevDigit
    ELSE IF Head(s) \in Digits THEN DigitsOk(Tail(s), TRUE)
    ELSE IF Head(s) = "_" THEN prevDigit /\ Tail(s) # <<>> /\ Tail(s)[1] \in Digits
                                /\ DigitsOk(Tail(s), FALSE)
    ELSE FALSE

RECURSIVE DigitsValue(_, _)
DigitsValue(s, acc) ==
    IF s = <<>> THEN acc
    ELSE IF Head(s) = "_" THEN DigitsValue(Tail(s), acc)
    ELSE DigitsValue(Tail(s), 10 * acc + DigitVal(Head(s)))

\* int(raw) for a str: [ok |-> FALSE] stands for ValueError.
int(raw) ==
    LET body == strip(raw)
        signed == body # <<>> /\ Head(body) \in {"-", "+"}
        digits == IF signed THEN Tail(body) ELSE body
        magnitude == DigitsValue(digits, 0)
    IN  IF DigitsOk(digits, FALSE)
        THEN [ok |-> TRUE, val |-> IF signed /\ Head(body) = "-" THEN 0 - magnitude ELSE magnitude]
        ELSE [ok |-> FALSE, val |-> 0]

max(a, b) == IF a >= b THEN a ELSE b

\* ------------------------------------------------------------ constants
\* Value of the module global ConnectionPool when the import failed (line 23).
NoClass == "None"
PoolClass == "psycopg_pool.ConnectionPool"

EnvNames == {"SPEEDLIMIT_DISABLE_POOLING", "SPEEDLIMIT_POOL_MIN_SIZE", "SPEEDLIMIT_POOL_MAX_SIZE",
             "SPEEDLIMIT_DATABASE_URL", "PGHOST"}
SizeNames == {"SPEEDLIMIT_POOL_MIN_SIZE", "SPEEDLIMIT_POOL_MAX_SIZE"}

\* Values of the pool-disable flag the model tries.
FlagValues == {None, <<"1">>, <<"0">>, <<>>, <<"t", "r", "u", "e">>, <<"1", " ">>}
\* Pool-size values paired with every string of SizeStrings at start.
SizeSamples == {None, <<"x">>, <<"0">>, <<"7">>}
\* Pool-size values assigned while the program runs.
SizeChanges == {None, <<"7">>}
\* Every pool-size string of at most MaxLen characters, and the unset variable.
SizeStrings == StringsUpTo(MaxLen) \cup {None}

\* Values of the connection string and of the host (which stands for the
\* discrete parameters PGHOST, PGPORT, PGDATABASE, PGUSER, PGPASSWORD).
UrlValues == {None, <<>>, <<"u">>}
HostValues == {None, <<"h">>}

EnvValues(name) == IF name = "SPEEDLIMIT_DISABLE_POOLING" THEN FlagValues
                   ELSE IF name \in SizeNames THEN SizeChanges
                   ELSE {}

\* Connection and pool-size values assigned while the program runs, under
\* SpecParams.
ParamChanges(name) == IF name = "SPEEDLIMIT_DATABASE_URL" THEN UrlValues
                      ELSE IF name = "PGHOST" THEN HostValues
                      ELSE IF name \in SizeNames THEN SizeChanges
                      ELSE {}

\* A key that a dict of connection arguments does not have.
Absent == <<"absent">>
AbsentFactory == "absent"
\* The host used when PGHOST is unset.
DefaultHost == <<"d", "e", "f", "a", "u", "l", "t">>
\* The empty dict of connection arguments.
NoKwargs == [conninfo |-> Absent, host |-> Absent, row_factory |-> AbsentFactory]

RowFactories == {"tuple_row", "dict_row"}
\* Which of commit and rollback fail when the scope calls them. The scope
\* calls commit only after the caller's code ended normally (e = NoExc).
DbFailures(e) == IF e = NoExc THEN {{}, {"commit"}, {"commit", "rollback"}}
                 ELSE {{}, {"rollback"}}
dict_row == "dict_row"
\* The row factory of a connection opened without row_factory.
tuple_row == "tuple_row"

\* The rows a query matches: at most MaxRows rows of the same width, at most
\* MaxCols columns (a SELECT without columns yields rows of width 0). A cell is
\* a value or None (SQL NULL).
PyNone == "None"
Cells == {"a", PyNone}
Results == UNION {[1..n -> [1..w -> Cells]] : n \in 0..MaxRows, w \in 0..MaxCols}
\* What the caller of fetch_value has when the call raised.
NoValue == "no value"

\* Exceptions. CallerBaseException is a BaseException that is no Exception
\* (KeyboardInterrupt, SystemExit, GeneratorExit); the others are Exceptions.
CallerFailures == {"CallerException", "CallerBaseException"}
IsException(e) == e \notin {NoExc, "CallerBaseException"}

VARIABLES
    ConnectionPool,   \* the imported pool class, or NoClass
    environ,          \* os.environ restricted to EnvNames
    _POOL,            \* the singleton: NoPool or the index of a pool in constructed
    _POOL_LOCK,       \* Unlocked or the thread holding the lock
    constructed,      \* one record per ConnectionPool(...) invocation
    returned,         \* pools returned so far by get_pool
    pconn,            \* the shared pool's connections
    budget,           \* operations the threads may still start
    pc,               \* per thread: where it is
    op,               \* per thread: the call it is in ("get_pool" / "connection_scope")
    frame,            \* per thread: locals of connection_scope
    pool,             \* per thread: local `pool` of connection_scope (line 93)
    log,              \* per thread: what the current scope did to its connection
    last              \* the call that finished in the step just taken, as its
                      \* caller saw it; NoCallYet after a step that finished none

vars == <<ConnectionPool, environ, _POOL, _POOL_LOCK, constructed, returned, pconn,
          budget, pc, op, frame, pool, log, last>>

shared == <<ConnectionPool, environ, _POOL, _POOL_LOCK, constructed, pconn>>

NoFrame == [dict_rows |-> FALSE, path |-> "none", conn |-> 0,
            previous_row_factory |-> tuple_row, exc |-> NoExc, kwargs |-> NoKwargs]

NoCallYet == [op |-> "none", path |-> "none", autocommit |-> FALSE,
              body |-> NoExc, exc |-> NoExc, pool |-> NoPool, log |-> <<>>,
              result |-> <<>>, value |-> NoValue]

\* ------------------------------------------------------------- _env_int
getenv(name, default) == IF environ[name] = None THEN default ELSE environ[name]

\* Faulty variant: the ValueError of int() is not caught.
_env_int_uncaught(name, default) ==
    LET raw == getenv(name, None)
    IN  IF raw = None THEN [raised |-> FALSE, val |-> default]
        ELSE IF int(raw).ok THEN [raised |-> FALSE, val |-> int(raw).val]
        ELSE [raised |-> TRUE, val |-> default]

\* Lines 31-39. The result is an integer; [raised |-> TRUE] would be a
\* ValueError leaving the function.
_env_int(name, default) ==
    LET raw == getenv(name, None)
    IN  IF raw = None THEN [raised |-> FALSE, val |-> default]
        ELSE IF int(raw).ok THEN [raised |-> FALSE, val |-> int(raw).val]
        ELSE [raised |-> FALSE, val |-> default]

\* ------------------------------------------------ _build_connect_kwargs
\* The connection arguments resolved from the environment: the connection
\* string, if set and not empty, verbatim; otherwise the discrete parameters,
\* each with its default. row_factory is passed on when one is requested.
_build_connect_kwargs(row_factory) ==
    LET url == getenv("SPEEDLIMIT_DATABASE_URL", None)
        factory == IF row_factory = PyNone THEN AbsentFactory ELSE row_factory
    IN  IF url # None /\ url # <<>>
        THEN [conninfo |-> url, host |-> Absent, row_factory |-> factory]
        ELSE [conninfo |-> Absent, host |-> getenv("PGHOST", DefaultHost),
              row_factory |-> factory]

\* Lines 61-71: the arguments of ConnectionPool(...) besides the sizes.
\* conninfo is the positional argument (Absent: not passed); kwargs_passed
\* tells whether the keyword kwargs is the dict, None, or not passed.
pool_arguments(connect_kwargs) ==
    LET conninfo == IF connect_kwargs.conninfo = Absent THEN None
                    ELSE connect_kwargs.conninfo
        rest == [connect_kwargs EXCEPT !.conninfo = Absent]
    IN  IF conninfo # None /\ conninfo # <<>>
        THEN [conninfo |-> conninfo, kwargs |-> rest,
              kwargs_passed |-> IF rest # NoKwargs THEN "dict" ELSE "absent"]
        ELSE [conninfo |-> Absent, kwargs |-> rest,
              kwargs_passed |-> IF rest # NoKwargs THEN "dict" ELSE "None"]

\* ------------------------------------------------------------- get_pool
\* A call ends: the thread is idle again and its locals are gone; `last` keeps
\* what the caller saw.
Finish(t, seen) ==
    /\ pc' = [pc EXCEPT ![t] = "idle"]
    /\ op' = [op EXCEPT ![t] = "none"]
    /\ frame' = [frame EXCEPT ![t] = NoFrame]
    /\ pool' = [pool EXCEPT ![t] = NoPool]
    /\ log' = [log EXCEPT ![t] = <<>>]
    /\ last' = seen

\* How a call of get_pool ends for its caller o ("get_pool" is a direct call,
\* "connection_scope" is line 93, where an exception leaves the scope too).
\* f is the caller's frame.
Raise(t, o, f, e) ==
    /\ Finish(t, [NoCallYet EXCEPT !.op = o, !.path = f.path, !.exc = e])
    /\ UNCHANGED returned

Return(t, o, f, p) ==
    /\ returned' = returned \cup {p}
    /\ IF o = "get_pool"
       THEN Finish(t, [NoCallYet EXCEPT !.op = o, !.pool = p])
       ELSE /\ pc' = [pc EXCEPT ![t] = "cs_borrow"]
            /\ op' = [op EXCEPT ![t] = o]
            /\ frame' = [frame EXCEPT ![t] = f]
            /\ pool' = [pool EXCEPT ![t] = p]
            /\ last' = NoCallYet
            /\ UNCHANGED log

\* Faulty variant: no availability check.
get_pool_enter_unchecked(t, o, f) ==
    IF _POOL # NoPool THEN Return(t, o, f, _POOL)
    ELSE /\ pc' = [pc EXCEPT ![t] = "gp_lock"]
         /\ op' = [op EXCEPT ![t] = o]
         /\ frame' = [frame EXCEPT ![t] = f]
         /\ last' = NoCallYet
         /\ UNCHANGED <<pool, log, returned>>

\* Faulty variant: no unguarded first check, every call goes to the lock.
get_pool_enter_locking(t, o, f) ==
    IF ConnectionPool = NoClass THEN Raise(t, o, f, "RuntimeError")
    ELSE /\ pc' = [pc EXCEPT ![t] = "gp_lock"]
         /\ op' = [op EXCEPT ![t] = o]
         /\ frame' = [frame EXCEPT ![t] = f]
         /\ last' = NoCallYet
         /\ UNCHANGED <<pool, log, returned>>

\* Lines 49-56: the availability check and the unguarded first check.
get_pool_enter(t, o, f) ==
    IF ConnectionPool = NoClass THEN Raise(t, o, f, "RuntimeError")
    ELSE IF _POOL # NoPool THEN Return(t, o, f, _POOL)
    ELSE /\ pc' = [pc EXCEPT ![t] = "gp_lock"]
         /\ op' = [op EXCEPT ![t] = o]
         /\ frame' = [frame EXCEPT ![t] = f]
         /\ last' = NoCallYet
         /\ UNCHANGED <<pool, log, returned>>

\* A direct call of get_pool().
call_get_pool(t) ==
    /\ pc[t] = "idle"
    /\ budget > 0
    /\ budget' = budget - 1
    /\ get_pool_enter(t, "get_pool", NoFrame)
    /\ UNCHANGED shared

\* Line 57: with _POOL_LOCK (blocks while another thread holds the lock).
get_pool_acquire(t) ==
    /\ pc[t] = "gp_lock"
    /\ _POOL_LOCK = Unlocked
    /\ _POOL_LOCK' = t
    /\ pc' = [pc EXCEPT ![t] = "gp_locked"]
    /\ last' = NoCallYet
    /\ UNCHANGED <<ConnectionPool, environ, _POOL, constructed, returned, pconn,
                   budget, op, frame, pool, log>>

\* Faulty variant: the maximum defends against non-positive values only.
pool_max_size_positive(min_size, envMax) == max(1, envMax)

\* Lines 59-60: the sizes the pool is constructed with.
pool_min_size(envMin) == max(1, envMin)
pool_max_size(min_size, envMax) == max(min_size, envMax)

\* Faulty variant: under the lock, a pool whose minimum no longer matches the
\* environment is built again.
second_check_resizing ==
    \/ _POOL = NoPool
    \/ constructed[_POOL].raw_min # environ["SPEEDLIMIT_POOL_MIN_SIZE"]

\* Faulty variant: no second check under the lock.
second_check_skipped == TRUE

\* Line 58: the second check, under the lock.
second_check == _POOL = NoPool

\* Faulty variant: the singleton is assigned before the constructor is known
\* to have succeeded.
get_pool_construct_installing(t, ctor_ok) ==
    /\ pc[t] = "gp_locked"
    /\ IF second_check
       THEN LET envMin == _env_int("SPEEDLIMIT_POOL_MIN_SIZE", 1)
                envMax == _env_int("SPEEDLIMIT_POOL_MAX_SIZE", 5)
                min_size == pool_min_size(envMin.val)
                max_size == pool_max_size(min_size, envMax.val)
                arguments == pool_arguments(_build_connect_kwargs(PyNone))
            IN  /\ constructed' = Append(constructed,
                            [ok |-> ctor_ok,
                             raw_min |-> environ["SPEEDLIMIT_POOL_MIN_SIZE"],
                             raw_max |-> environ["SPEEDLIMIT_POOL_MAX_SIZE"],
                             env_min |-> envMin.val, env_max |-> envMax.val,
                             min_size |-> min_size, max_size |-> max_size,
                             conninfo |-> arguments.conninfo,
                             kwargs |-> arguments.kwargs,
                             kwargs_passed |-> arguments.kwargs_passed])
                /\ _POOL' = Len(constructed) + 1
                /\ frame' = [frame EXCEPT ![t].exc = IF ctor_ok THEN NoExc ELSE "PoolError"]
       ELSE UNCHANGED <<constructed, _POOL, frame>>
    /\ pc' = [pc EXCEPT ![t] = "gp_unlock"]
    /\ last' = NoCallYet
    /\ UNCHANGED <<ConnectionPool, environ, _POOL_LOCK, returned, pconn,
                   budget, op, pool, log>>

\* Lines 58-71, under the lock: construct and install the pool unless it exists.
\* The constructor may fail (ctor_ok = FALSE).
get_pool_construct(t, ctor_ok) ==
    /\ pc[t] = "gp_locked"
    /\ IF second_check
       THEN LET envMin == _env_int("SPEEDLIMIT_POOL_MIN_SIZE", 1)
                envMax == _env_int("SPEEDLIMIT_POOL_MAX_SIZE", 5)
                min_size == pool_min_size(envMin.val)
                max_size == pool_max_size(min_size, envMax.val)
                arguments == pool_arguments(_build_connect_kwargs(PyNone))
            IN  IF envMin.raised \/ envMax.raised
                THEN /\ frame' = [frame EXCEPT ![t].exc = "ValueError"]
                     /\ UNCHANGED <<constructed, _POOL>>
                ELSE /\ constructed' = Append(constructed,
                            [ok |-> ctor_ok,
                             raw_min |-> environ["SPEEDLIMIT_POOL_MIN_SIZE"],
                             raw_max |-> environ["SPEEDLIMIT_POOL_MAX_SIZE"],
                             env_min |-> envMin.val, env_max |-> envMax.val,
                             min_size |-> min_size, max_size |-> max_size,
                             conninfo |-> arguments.conninfo,
                             kwargs |-> arguments.kwargs,
                             kwargs_passed |-> arguments.kwargs_passed])
                     /\ IF ctor_ok
                        THEN _POOL' = Len(constructed) + 1 /\ UNCHANGED frame
                        ELSE /\ frame' = [frame EXCEPT ![t].exc = "PoolError"]
                             /\ UNCHANGED _POOL
       ELSE UNCHANGED <<constructed, _POOL, frame>>
    /\ pc' = [pc EXCEPT ![t] = "gp_unlock"]
    /\ last' = NoCallYet
    /\ UNCHANGED <<ConnectionPool, environ, _POOL_LOCK, returned, pconn,
                   budget, op, pool, log>>

\* Faulty variant: the lock is released by hand after the construction, so
\* not when the construction raised.
get_pool_release_unless_raised(t) ==
    /\ pc[t] = "gp_unlock"
    /\ _POOL_LOCK' = IF frame[t].exc # NoExc THEN _POOL_LOCK ELSE Unlocked
    /\ IF frame[t].exc # NoExc
       THEN Raise(t, op[t], frame[t], frame[t].exc)
       ELSE Return(t, op[t], frame[t], _POOL)
    /\ UNCHANGED <<ConnectionPool, environ, _POOL, constructed, pconn, budget>>

\* Leaving the with block (lock released on every path), then line 72 or the
\* exception raised under the lock.
get_pool_release(t) ==
    /\ pc[t] = "gp_unlock"
    /\ _POOL_LOCK' = Unlocked
    /\ IF frame[t].exc # NoExc
       THEN Raise(t, op[t], frame[t], frame[t].exc)
       ELSE Return(t, op[t], frame[t], _POOL)
    /\ UNCHANGED <<ConnectionPool, environ, _POOL, constructed, pconn, budget>>

\* ----------------------------------------------------- connection_scope
\* Lines 41-44: connect(dict_rows) opens a connection with the row factory
\* fixed by dict_rows; a new connection is not in autocommit mode. The
\* connection parameters (_build_connect_kwargs) decide where the connection
\* goes, not what the scope does with it, and are left out.
connect(dict_rows) ==
    [row_factory |-> IF dict_rows THEN dict_row ELSE tuple_row, autocommit |-> FALSE,
     kwargs |-> _build_connect_kwargs(IF dict_rows THEN dict_row ELSE PyNone)]

\* Faulty variant: every value but "0" disables pooling.
disable_pooling_not_zero == getenv("SPEEDLIMIT_DISABLE_POOLING", <<"0">>) # <<"0">>

\* Line 79: os.getenv("SPEEDLIMIT_DISABLE_POOLING", "0") == "1".
disable_pooling == getenv("SPEEDLIMIT_DISABLE_POOLING", <<"0">>) = <<"1">>

\* Faulty variant: the flag is ignored.
use_unpooled_ignoring_flag == ConnectionPool = NoClass

\* Line 81: the strategy decision.
use_unpooled == disable_pooling \/ ConnectionPool = NoClass

\* Lines 79-82 and 93: entering the scope. On the unpooled path the connection
\* is opened (connect may fail); on the pooled path get_pool() is called.
connection_scope_enter(t, o, dict_rows, connect_ok) ==
    /\ pc[t] = "idle"
    /\ budget > 0
    /\ budget' = budget - 1
    /\ LET f == [NoFrame EXCEPT !.dict_rows = dict_rows,
                                !.path = IF use_unpooled THEN "unpooled" ELSE "pooled"]
       IN  IF use_unpooled
           THEN IF connect_ok
                THEN /\ pc' = [pc EXCEPT ![t] = "cs_body"]
                     /\ op' = [op EXCEPT ![t] = o]
                     /\ frame' = [frame EXCEPT ![t] =
                                    [f EXCEPT !.kwargs = connect(dict_rows).kwargs]]
                     /\ log' = [log EXCEPT ![t] = <<"connect">>]
                     /\ last' = NoCallYet
                     /\ UNCHANGED <<pool, returned>>
                ELSE /\ Finish(t, [NoCallYet EXCEPT !.op = o,
                                        !.path = f.path,
                                        !.exc = "OperationalError",
                                        !.log = <<"connect_failed">>])
                     /\ UNCHANGED returned
           ELSE get_pool_enter(t, o, f)
    /\ UNCHANGED shared

\* Line 76: a with connection_scope(dict_rows=...) block of a caller.
call_connection_scope(t, dict_rows, connect_ok) ==
    connection_scope_enter(t, "connection_scope", dict_rows, connect_ok)

\* Lines 94-97: borrow a connection of the pool (blocks while none is free),
\* remember its row factory and switch it if dict rows were requested.
pool_connection(t) ==
    /\ pc[t] = "cs_borrow"
    /\ \E c \in ConnIds :
        /\ pconn[c].owner = 0
        /\ frame' = [frame EXCEPT ![t].conn = c,
                                  ![t].previous_row_factory = pconn[c].row_factory]
        /\ pconn' = [pconn EXCEPT ![c].owner = t,
                                  ![c].row_factory =
                                      IF frame[t].dict_rows THEN dict_row ELSE @]
        /\ log' = [log EXCEPT ![t] =
                    IF frame[t].dict_rows THEN <<"getconn", "set_row_factory">>
                    ELSE <<"getconn">>]
    /\ pc' = [pc EXCEPT ![t] = "cs_body"]
    /\ last' = NoCallYet
    /\ UNCHANGED <<ConnectionPool, environ, _POOL, _POOL_LOCK, constructed, returned,
                   budget, op, pool>>

\* Faulty variant: a failed borrow is tried once more before giving up.
pool_connection_fails_retrying(t) ==
    /\ pc[t] = "cs_borrow"
    /\ Finish(t, [NoCallYet EXCEPT !.op = op[t], !.path = frame[t].path,
                                   !.exc = "PoolTimeout", !.pool = pool[t],
                                   !.log = <<"getconn_failed", "getconn_failed">>])
    /\ UNCHANGED <<shared, returned, budget>>

\* Line 94 when the pool cannot lend a connection (PoolTimeout, PoolClosed).
pool_connection_fails(t) ==
    /\ pc[t] = "cs_borrow"
    /\ Finish(t, [NoCallYet EXCEPT !.op = op[t], !.path = frame[t].path,
                                   !.exc = "PoolTimeout", !.pool = pool[t],
                                   !.log = <<"getconn_failed">>])
    /\ UNCHANGED <<shared, returned, budget>>

\* conn.commit() / conn.rollback() as the scope sees them: the call made, and
\* the exception it raises when it fails.
commit(fails) == [log |-> <<IF fails THEN "commit_failed" ELSE "commit_ok">>,
                  exc |-> IF fails THEN "CommitError" ELSE NoExc]
rollback(fails, pending) == [log |-> <<IF fails THEN "rollback_failed" ELSE "rollback_ok">>,
                             exc |-> IF fails THEN "RollbackError" ELSE pending]
NoCall(pending) == [log |-> <<>>, exc |-> pending]

\* Lines 83-90: the unpooled path after the yield. e is what the caller's code
\* raised. The result is the calls made on the connection and the exception
\* that leaves the scope.
unpooled_try(e, commit_fails) ==
    IF e = NoExc THEN commit(commit_fails) ELSE NoCall(e)

\* Faulty variant: the except clause does not re-raise.
unpooled_except_swallowing(tried, rollback_fails) ==
    IF IsException(tried.exc)
    THEN [log |-> tried.log \o rollback(rollback_fails, tried.exc).log,
          exc |-> IF rollback_fails THEN "RollbackError" ELSE NoExc]
    ELSE tried

unpooled_except(tried, rollback_fails) ==
    IF IsException(tried.exc)
    THEN [log |-> tried.log \o rollback(rollback_fails, tried.exc).log,
          exc |-> rollback(rollback_fails, tried.exc).exc]
    ELSE tried

\* Faulty variant: the connection is closed before the transaction is ended.
unpooled_exit_closing_first(e, autocommit, commit_fails, rollback_fails) ==
    LET handled == unpooled_except(unpooled_try(e, commit_fails), rollback_fails)
    IN  [log |-> <<"close">> \o handled.log, exc |-> handled.exc]

\* Lines 83-90: the try statement, then the finally clause.
unpooled_exit(e, autocommit, commit_fails, rollback_fails) ==
    LET handled == unpooled_except(unpooled_try(e, commit_fails), rollback_fails)
    IN  [log |-> handled.log \o <<"close">>, exc |-> handled.exc]

\* Faulty variant: the pooled path never commits.
pooled_try_without_commit(e, autocommit, commit_fails) == NoCall(e)

\* Lines 98-105: the pooled path after the yield, before the finally clause.
pooled_try(e, autocommit, commit_fails) ==
    IF e = NoExc /\ ~autocommit THEN commit(commit_fails) ELSE NoCall(e)

\* Faulty variant: the pooled path rolls back whatever the autocommit flag.
pooled_except_always(tried, autocommit, rollback_fails) ==
    IF IsException(tried.exc)
    THEN [log |-> tried.log \o rollback(rollback_fails, tried.exc).log,
          exc |-> rollback(rollback_fails, tried.exc).exc]
    ELSE tried

\* Faulty variant: the pooled path has no except clause.
pooled_except_without_rollback(tried, autocommit, rollback_fails) == tried

pooled_except(tried, autocommit, rollback_fails) ==
    IF IsException(tried.exc) /\ ~autocommit
    THEN [log |-> tried.log \o rollback(rollback_fails, tried.exc).log,
          exc |-> rollback(rollback_fails, tried.exc).exc]
    ELSE tried

\* Faulty variant: the finally clause does not restore the row factory.
row_factory_kept(previous_row_factory, current) == current

\* Line 107: the row factory assigned in the finally clause.
restored_row_factory(previous_row_factory, current) == previous_row_factory

\* Faulty variant: the row factory is restored after the try statement instead
\* of in a finally clause, so not when commit or rollback raised.
pooled_exit_without_finally(e, autocommit, commit_fails, rollback_fails) ==
    LET handled == pooled_except(pooled_try(e, autocommit, commit_fails),
                                 autocommit, rollback_fails)
    IN  [log |-> handled.log \o (IF handled.exc \in {"CommitError", "RollbackError"}
                                 THEN <<"putconn">>
                                 ELSE <<"restore_row_factory", "putconn">>),
         exc |-> handled.exc]

\* Lines 98-107, then the exit of pool.connection(), which returns the
\* connection to the pool.
pooled_exit(e, autocommit, commit_fails, rollback_fails) ==
    LET handled == pooled_except(pooled_try(e, autocommit, commit_fails),
                                 autocommit, rollback_fails)
    IN  [log |-> handled.log \o <<"restore_row_factory", "putconn">>, exc |-> handled.exc]

\* Lines 84-91 / 99-107: the caller's code runs with the connection, then the
\* scope finishes. The caller may assign conn.row_factory (rf) and
\* conn.autocommit (ac), and ends normally (e = NoExc) or raises e. The
\* connection is the thread's alone until it is closed or returned, so the
\* caller's code and the exit are one step for every other thread.
scope_body_and_exit(t, rf, ac, e, commit_fails, rollback_fails) ==
    /\ pc[t] = "cs_body"
    /\ op[t] = "connection_scope"
    /\ LET f == frame[t]
           r == IF f.path = "unpooled"
                THEN unpooled_exit(e, ac, commit_fails, rollback_fails)
                ELSE pooled_exit(e, ac, commit_fails, rollback_fails)
       IN  /\ Finish(t, [NoCallYet EXCEPT
                         !.op = "connection_scope", !.path = f.path,
                         !.autocommit = ac, !.body = e,
                         !.exc = r.exc, !.pool = pool[t], !.log = log[t] \o r.log])
           /\ IF f.path = "unpooled"
              THEN UNCHANGED pconn
              ELSE pconn' = [pconn EXCEPT
                        ![f.conn] = [row_factory |->
                                         restored_row_factory(f.previous_row_factory, rf),
                                     autocommit |-> ac, owner |-> 0]]
    /\ UNCHANGED <<ConnectionPool, environ, _POOL, _POOL_LOCK, constructed, returned,
                   budget>>

\* ---------------------------------------------------------- fetch_value
\* Line 112: fetch_value enters connection_scope() with the default
\* dict_rows=False.
call_fetch_value(t, connect_ok) ==
    connection_scope_enter(t, "fetch_value", FALSE, connect_ok)

\* Faulty variant: the row fetched is the last row of the result.
fetchone_last(result) ==
    IF result = <<>> THEN [found |-> FALSE, row |-> <<>>]
    ELSE [found |-> TRUE, row |-> result[Len(result)]]

\* cur.fetchone(): the next row of the result, or None when there is none.
fetchone(result) ==
    IF result = <<>> THEN [found |-> FALSE, row |-> <<>>]
    ELSE [found |-> TRUE, row |-> Head(result)]

\* Line 116: row[0] if row else None (None and the empty tuple are falsy).
first_column(row) ==
    IF row.found /\ row.row # <<>> THEN row.row[1] ELSE PyNone

\* Faulty variant: a failed execution is tried once more.
fetch_value_block_retrying(result, execute_fails) ==
    IF execute_fails
    THEN [log |-> <<"cursor", "execute_failed", "execute_ok", "fetchone", "cursor_close">>,
          exc |-> NoExc, value |-> first_column(fetchone(result))]
    ELSE [log |-> <<"cursor", "execute_ok", "fetchone", "cursor_close">>,
          exc |-> NoExc, value |-> first_column(fetchone(result))]

\* Lines 113-116: the block inside the scope. The query matches `result`, or
\* its execution fails. The outcome is the calls made on the cursor, the
\* exception leaving the block and the value of the return statement.
fetch_value_block(result, execute_fails) ==
    IF execute_fails
    THEN [log |-> <<"cursor", "execute_failed", "cursor_close">>,
          exc |-> "QueryError", value |-> NoValue]
    ELSE [log |-> <<"cursor", "execute_ok", "fetchone", "cursor_close">>,
          exc |-> NoExc, value |-> first_column(fetchone(result))]

\* Lines 112-116 from the yield of the scope on: the block runs with the
\* connection as the scope handed it out (the block assigns neither
\* autocommit nor row_factory), then the scope finishes; the value is returned
\* only if the scope's exit raised nothing.
fetch_value_body(t, result, execute_fails, commit_fails, rollback_fails) ==
    /\ pc[t] = "cs_body"
    /\ op[t] = "fetch_value"
    /\ LET f == frame[t]
           ac == IF f.path = "unpooled" THEN connect(f.dict_rows).autocommit
                 ELSE pconn[f.conn].autocommit
           block == fetch_value_block(result, execute_fails)
           r == IF f.path = "unpooled"
                THEN unpooled_exit(block.exc, ac, commit_fails, rollback_fails)
                ELSE pooled_exit(block.exc, ac, commit_fails, rollback_fails)
       IN  /\ Finish(t, [NoCallYet EXCEPT
                         !.op = "fetch_value", !.path = f.path,
                         !.autocommit = ac, !.body = block.exc,
                         !.exc = r.exc, !.pool = pool[t],
                         !.log = log[t] \o block.log \o r.log,
                         !.result = result,
                         !.value = IF r.exc = NoExc THEN block.value ELSE NoValue])
           /\ IF f.path = "unpooled"
              THEN UNCHANGED pconn
              ELSE pconn' = [pconn EXCEPT
                        ![f.conn] = [row_factory |->
                                         restored_row_factory(f.previous_row_factory,
                                                              pconn[f.conn].row_factory),
                                     autocommit |-> ac, owner |-> 0]]
    /\ UNCHANGED <<ConnectionPool, environ, _POOL, _POOL_LOCK, constructed, returned,
                   budget>>

\* os.environ[name] = value (value None: del os.environ[name]) by the program.
setenv(name, value) ==
    /\ budget > 0
    /\ budget' = budget - 1
    /\ environ[name] # value
    /\ environ' = [environ EXCEPT ![name] = value]
    /\ last' = NoCallYet
    /\ UNCHANGED <<ConnectionPool, _POOL, _POOL_LOCK, constructed, returned, pconn,
                   pc, op, frame, pool, log>>

\* ------------------------------------------------------- specification
InitThreads ==
    /\ pc = [t \in Threads |-> "idle"]
    /\ op = [t \in Threads |-> "none"]
    /\ frame = [t \in Threads |-> NoFrame]
    /\ pool = [t \in Threads |-> NoPool]
    /\ log = [t \in Threads |-> <<>>]
    /\ last = NoCallYet

InitShared ==
    /\ _POOL = NoPool
    /\ constructed = <<>>
    /\ returned = {}
    /\ pconn = [c \in ConnIds |-> [row_factory |-> tuple_row, autocommit |-> FALSE, owner |-> 0]]

\* The process starts with the pool-disable flag unset or "1" and the pool
\* sizes unset, with or without pooling support, and runs MaxCalls operations
\* on its threads.
InitThreaded ==
    /\ InitThreads
    /\ InitShared
    /\ ConnectionPool \in {PoolClass, NoClass}
    /\ _POOL_LOCK = Unlocked
    /\ budget = MaxCalls
    /\ \E flag \in {None, <<"1">>} :
        environ = [name \in EnvNames |->
                     IF name = "SPEEDLIMIT_DISABLE_POOLING" THEN flag ELSE None]

\* The first caller of get_pool holds the lock and is about to run lines 58-71,
\* in a process started with arbitrary pool-size strings.
InitSizes ==
    /\ InitShared
    /\ ConnectionPool = PoolClass
    /\ budget = 0
    /\ \E a \in SizeStrings, b \in SizeSamples, swap \in BOOLEAN :
        environ = [name \in EnvNames |->
                     IF name \notin SizeNames THEN None
                     ELSE IF (name = "SPEEDLIMIT_POOL_MIN_SIZE") = swap THEN a ELSE b]
    /\ pc = [u \in Threads |-> IF u = 1 THEN "gp_locked" ELSE "idle"]
    /\ op = [u \in Threads |-> IF u = 1 THEN "get_pool" ELSE "none"]
    /\ _POOL_LOCK = 1
    /\ frame = [t \in Threads |-> NoFrame]
    /\ pool = [t \in Threads |-> NoPool]
    /\ log = [t \in Threads |-> <<>>]
    /\ last = NoCallYet

Init == InitThreaded \/ InitSizes

Next ==
    \/ \E t \in Threads :
        \/ call_get_pool(t)
        \/ get_pool_acquire(t)
        \/ \E ctor_ok \in BOOLEAN : get_pool_construct(t, ctor_ok)
        \/ get_pool_release(t)
        \/ \E dict_rows \in BOOLEAN, connect_ok \in BOOLEAN :
                call_connection_scope(t, dict_rows, connect_ok)
        \/ pool_connection(t)
        \/ pool_connection_fails(t)
        \/ \E rf \in RowFactories, ac \in BOOLEAN, e \in {NoExc} \cup CallerFailures :
            \E db \in DbFailures(e) :
                scope_body_and_exit(t, rf, ac, e, "commit" \in db, "rollback" \in db)
    \/ \E name \in EnvNames : \E value \in EnvValues(name) : setenv(name, value)

Spec == Init /\ [][Next]_vars

\* The program run with its connection and pool-size variables changing
\* (the pool-disable flag keeps the value it started with; what the callers do
\* inside their scopes is left out but for how the scope ends).
InitParams ==
    /\ InitThreads
    /\ InitShared
    /\ ConnectionPool = PoolClass
    /\ _POOL_LOCK = Unlocked
    /\ budget = MaxCalls
    /\ \E flag \in {None, <<"1">>}, url \in UrlValues :
        environ = [name \in EnvNames |->
                     IF name = "SPEEDLIMIT_DISABLE_POOLING" THEN flag
                     ELSE IF name = "SPEEDLIMIT_DATABASE_URL" THEN url
                     ELSE None]

NextParams ==
    \/ \E t \in Threads :
        \/ call_get_pool(t)
        \/ get_pool_acquire(t)
        \/ \E ctor_ok \in BOOLEAN : get_pool_construct(t, ctor_ok)
        \/ get_pool_release(t)
        \/ \E dict_rows \in BOOLEAN, connect_ok \in BOOLEAN :
                call_connection_scope(t, dict_rows, connect_ok)
        \/ pool_connection(t)
        \/ pool_connection_fails(t)
        \/ \E e \in {NoExc} \cup CallerFailures :
                scope_body_and_exit(t, tuple_row, FALSE, e, FALSE, FALSE)
    \/ \E name \in EnvNames : \E value \in ParamChanges(name) : setenv(name, value)

SpecParams == InitParams /\ [][NextParams]_vars

\* The calls of the threads without changes of the environment, under fair
\* scheduling: a thread that can take the lock, run the code under the lock
\* (the pool constructor terminates) or leave the with block eventually does.
\* Nothing is assumed of threads that are idle or inside a scope.
NextCalls ==
    \E t \in Threads :
        \/ call_get_pool(t)
        \/ get_pool_acquire(t)
        \/ \E ctor_ok \in BOOLEAN : get_pool_construct(t, ctor_ok)
        \/ get_pool_release(t)
        \/ \E dict_rows \in BOOLEAN, connect_ok \in BOOLEAN :
                call_connection_scope(t, dict_rows, connect_ok)
        \/ pool_connection(t)
        \/ pool_connection_fails(t)
        \/ \E e \in {NoExc} \cup CallerFailures :
                scope_body_and_exit(t, tuple_row, FALSE, e, FALSE, FALSE)

Fairness ==
    \A t \in Threads :
        /\ WF_vars(get_pool_acquire(t))
        /\ WF_vars(\E ctor_ok \in BOOLEAN : get_pool_construct(t, ctor_ok))
        /\ WF_vars(get_pool_release(t))

SpecFair == InitThreaded /\ [][NextCalls]_vars /\ Fairness

\* One call of fetch_value, by any thread, in every state of the pool the call
\* can find: no pooling support, pooling disabled, no pool yet, or a pool whose
\* connections earlier scopes left in autocommit mode or not.
InitFetch ==
    /\ InitThreads
    /\ ConnectionPool \in {PoolClass, NoClass}
    /\ _POOL_LOCK = Unlocked
    /\ budget = 1
    /\ \E flag \in {None, <<"1">>} :
        environ = [name \in EnvNames |->
                     IF name = "SPEEDLIMIT_DISABLE_POOLING" THEN flag ELSE None]
    /\ \E exists \in {FALSE, ConnectionPool = PoolClass} :
        /\ _POOL = IF exists THEN 1 ELSE NoPool
        /\ constructed = IF exists
                         THEN <<[ok |-> TRUE, raw_min |-> None, raw_max |-> None,
                                 env_min |-> 1, env_max |-> 5,
                                 min_size |-> 1, max_size |-> 5,
                                 conninfo |-> Absent,
                                 kwargs |-> [NoKwargs EXCEPT !.host = DefaultHost],
                                 kwargs_passed |-> "dict"]>>
                         ELSE <<>>
        /\ returned = IF exists THEN {1} ELSE {}
        /\ \E acs \in [ConnIds -> {FALSE, exists}] :
            pconn = [c \in ConnIds |->
                        [row_factory |-> tuple_row, autocommit |-> acs[c], owner |-> 0]]

NextFetch ==
    \E t \in Threads :
        \/ \E connect_ok \in BOOLEAN : call_fetch_value(t, connect_ok)
        \/ get_pool_acquire(t)
        \/ \E ctor_ok \in BOOLEAN : get_pool_construct(t, ctor_ok)
        \/ get_pool_release(t)
        \/ pool_connection(t)
        \/ pool_connection_fails(t)
        \/ \E result \in Results, execute_fails \in BOOLEAN :
            \E db \in DbFailures(IF execute_fails THEN "QueryError" ELSE NoExc) :
                fetch_value_body(t, result, execute_fails, "commit" \in db, "rollback" \in db)

SpecFetch == InitFetch /\ [][NextFetch]_vars

\* ================================================================ claims
Count(l, S) == Cardinality({i \in 1..Len(l) : l[i] \in S})
Has(l, x) == \E i \in 1..Len(l) : l[i] = x

Commits(l) == Count(l, {"commit_ok", "commit_failed"})
Rollbacks(l) == Count(l, {"rollback_ok", "rollback_failed"})
\* Times the connection was closed or returned to the pool.
Releases(l) == Count(l, {"close", "putconn"})

\* The step just taken finished a scope whose caller code ran.
ScopeRan == last.op = "connection_scope" /\ last.log # <<>>
                /\ Head(last.log) \in {"connect", "getconn"}

AllConstructionsSucceeded == \A i \in 1..Len(constructed) : constructed[i].ok

\* The state get_pool may touch.
PoolState == <<_POOL, _POOL_LOCK, constructed, returned, pconn>>

\* The step being taken enters connection_scope, and the path it takes.
ScopeEntered ==
    /\ budget' # budget
    /\ \/ last'.op = "connection_scope"
       \/ \E t \in Threads : op[t] = "none" /\ op'[t] = "connection_scope"
EnteredPath ==
    IF last'.op = "connection_scope" THEN last'.path
    ELSE frame'[CHOOSE t \in Threads : op[t] = "none" /\ op'[t] = "connection_scope"].path

\* C1: while no pool construction has failed, the pool constructor has been
\* invoked at most once, and every get_pool call that returned (from any
\* thread, in any interleaving) returned the one installed pool.
C1_Singleton ==
    AllConstructionsSucceeded =>
        /\ Len(constructed) <= 1
        /\ returned \subseteq {_POOL}
        /\ NoPool \notin returned

\* C1 witness: the pool was already returned to one caller while another
\* thread, which passed the first check before the pool was installed, is
\* leaving the lock after the second check found the pool.
C1_Witness ==
    /\ AllConstructionsSucceeded
    /\ returned = {1}
    /\ \E t \in Threads : pc[t] = "gp_unlock" /\ _POOL = 1 /\ frame[t].exc = NoExc

\* C2: a scope whose caller code ended without failure has invoked commit
\* exactly once unless the connection is in autocommit mode, and has closed
\* the connection or returned it to the pool exactly once.
C2_CommitOnSuccess ==
    (ScopeRan /\ last.body = NoExc) =>
        /\ ~last.autocommit => Commits(last.log) = 1
        /\ Releases(last.log) = 1
        /\ last.log[Len(last.log)] = IF last.path = "pooled" THEN "putconn" ELSE "close"

\* C2 witness: a pooled scope on a connection that is not in autocommit mode
\* ended normally.
C2_Witness ==
    /\ ScopeRan /\ last.body = NoExc /\ ~last.autocommit /\ last.path = "pooled"
    /\ last.exc = NoExc
    /\ Has(last.log, "commit_ok")

\* C3 (as claimed): a scope whose caller code raised has rolled back unless
\* autocommit, the failure reaching the caller is the caller's own failure, and
\* the connection was closed or returned exactly once.
C3_Original ==
    (ScopeRan /\ last.body # NoExc) =>
        /\ ~last.autocommit => Rollbacks(last.log) = 1
        /\ last.exc = last.body
        /\ Releases(last.log) = 1

\* C3 (amended): a scope whose caller code raised has closed or returned the
\* connection exactly once. If the failure is an Exception, rollback was
\* invoked exactly once (unless autocommit on the pooled path) and the failure
\* reaching the caller is the caller's own unless rollback itself failed, in
\* which case it is the rollback's error. If the failure is a BaseException
\* that is no Exception, no rollback was invoked and it propagates unchanged.
C3_RollbackOnFailure ==
    (ScopeRan /\ last.body # NoExc) =>
        /\ Releases(last.log) = 1
        /\ Commits(last.log) = 0
        /\ IsException(last.body) =>
            /\ ~last.autocommit => Rollbacks(last.log) = 1
            /\ last.exc = IF Has(last.log, "rollback_failed")
                          THEN "RollbackError" ELSE last.body
        /\ ~IsException(last.body) =>
            /\ Rollbacks(last.log) = 0
            /\ last.exc = last.body

\* C3 witness: the caller raised an Exception in an unpooled scope, rollback
\* succeeded and the caller's failure came out.
C3_Witness ==
    /\ ScopeRan /\ last.body = "CallerException" /\ last.path = "unpooled"
    /\ Has(last.log, "rollback_ok")
    /\ last.exc = "CallerException"

\* C4: a connection in the pool that no scope holds has the row factory the
\* pool opened it with, whatever the scopes that held it requested or
\* assigned and however they ended; and a scope that has just borrowed a
\* connection sees dict rows exactly if it requested them.
C4_ModeIsolation ==
    /\ \A c \in ConnIds : pconn[c].owner = 0 => pconn[c].row_factory = tuple_row
    /\ \A t \in Threads :
        (pc[t] = "cs_body" /\ frame[t].path = "pooled") =>
            /\ frame[t].previous_row_factory = tuple_row
            /\ pconn[frame[t].conn].row_factory =
                    IF frame[t].dict_rows THEN dict_row ELSE tuple_row

\* C4 witness: a pooled scope that requested dict rows has just ended with a
\* failure of its caller, and a connection is back in the pool.
C4_Witness ==
    /\ ScopeRan /\ last.path = "pooled" /\ Has(last.log, "set_row_factory")
    /\ last.body # NoExc
    /\ Has(last.log, "putconn")
    /\ \E c \in ConnIds : pconn[c].owner = 0 /\ pconn[c].autocommit

\* C5: a scope entered while the pool-disable flag is "1" takes the unpooled
\* path, and entering it leaves the pool singleton, the pool lock, the pools
\* constructed, the pools returned and the pool's connections as they were,
\* whether or not a pool exists; a thread holding an unpooled connection is
\* never inside get_pool nor borrowing, none of its steps changes that state,
\* and when its scope ends (on any exit path) it has opened one connection and
\* closed it once.
C5_UnpooledLeavesPool ==
    /\ [](\A t \in Threads : frame[t].path = "unpooled" =>
                pc[t] = "cs_body" /\ pool[t] = NoPool)
    /\ [][(ScopeEntered /\ environ["SPEEDLIMIT_DISABLE_POOLING"] = <<"1">>) =>
                (EnteredPath = "unpooled" /\ UNCHANGED PoolState)]_vars
    /\ [][\A t \in Threads :
            (frame[t].path = "unpooled" /\ pc'[t] # pc[t]) =>
                /\ UNCHANGED PoolState
                /\ Count(last'.log, {"connect"}) = 1
                /\ Count(last'.log, {"close"}) = 1
                /\ last'.pool = NoPool]_vars

\* C5 witness: pooling is available and a pool exists, and an unpooled scope
\* has just ended.
C5_Witness ==
    /\ ConnectionPool = PoolClass /\ _POOL # NoPool
    /\ environ["SPEEDLIMIT_DISABLE_POOLING"] = <<"1">>
    /\ ScopeRan /\ last.path = "unpooled" /\ Has(last.log, "close")

\* C6 (as claimed): on both paths, a scope whose connection is in autocommit
\* mode when it ends has invoked neither commit nor rollback.
C6_Original ==
    (ScopeRan /\ last.autocommit) =>
        Commits(last.log) = 0 /\ Rollbacks(last.log) = 0

\* C6 (amended): on the pooled path, a scope whose connection is in autocommit
\* mode when it ends has invoked neither commit nor rollback; on the unpooled
\* path the autocommit flag is not consulted: commit is invoked after a normal
\* end and rollback after an Exception, also in autocommit mode.
C6_AutocommitSuppresses ==
    /\ (ScopeRan /\ last.autocommit /\ last.path = "pooled") =>
            Commits(last.log) = 0 /\ Rollbacks(last.log) = 0
    /\ (ScopeRan /\ last.autocommit /\ last.path = "unpooled") =>
            /\ last.body = NoExc => Commits(last.log) = 1
            /\ IsException(last.body) => Rollbacks(last.log) = 1

\* C6 witness: a pooled scope ended with a failure of its caller on a
\* connection in autocommit mode.
C6_Witness ==
    /\ ScopeRan /\ last.autocommit /\ last.path = "pooled"
    /\ last.body = "CallerException"

\* C7: without pooling support no pool is ever installed, constructed or
\* returned, the pool lock is never taken, no thread gets past the first
\* lines of get_pool, and a get_pool call ends with the configuration error.
C7_UnavailableFailsFast ==
    ConnectionPool = NoClass =>
        /\ _POOL = NoPool /\ _POOL_LOCK = Unlocked
        /\ constructed = <<>> /\ returned = {}
        /\ \A t \in Threads : pc[t] \notin {"gp_lock", "gp_locked", "gp_unlock", "cs_borrow"}
        /\ last.op = "get_pool" => (last.exc = "RuntimeError" /\ last.pool = NoPool)

\* C7 witness: a get_pool call has just failed with the configuration error.
C7_Witness ==
    ConnectionPool = NoClass /\ last.op = "get_pool" /\ last.exc = "RuntimeError"

\* C8: a scope takes the unpooled path exactly if, at the step that enters it,
\* the pool-disable flag is the string "1" or pooling support is unavailable;
\* and no scope ends with the configuration error.
C8_Strategy ==
    /\ [][ScopeEntered =>
            ((EnteredPath = "unpooled") <=>
                (environ["SPEEDLIMIT_DISABLE_POOLING"] = <<"1">>
                    \/ ConnectionPool = NoClass))]_vars
    /\ [](last.op = "connection_scope" => last.exc # "RuntimeError")

\* C8 witness: with pooling support, one thread is in a pooled scope and
\* another in an unpooled scope (the flag changed between their entries), and
\* the flag is now a value other than "1" and "0".
C8_Witness ==
    /\ ConnectionPool = PoolClass
    /\ \E t, u \in Threads : frame[t].path = "pooled" /\ frame[u].path = "unpooled"
    /\ environ["SPEEDLIMIT_DISABLE_POOLING"] \in {<<>>, <<"t", "r", "u", "e">>, <<"1", " ">>}

\* C9: every pool is constructed with 1 <= min_size <= max_size, where
\* min_size is the resolved minimum raised to 1 and max_size is the resolved
\* maximum raised to min_size; the resolved value of an integer literal is the
\* integer it denotes (sign, blanks and leading zeros included).
C9_PoolSizes ==
    \A i \in 1..Len(constructed) :
        LET k == constructed[i]
        IN  /\ 1 <= k.min_size /\ k.min_size <= k.max_size
            /\ k.min_size = IF k.env_min < 1 THEN 1 ELSE k.env_min
            /\ k.max_size = IF k.env_max < k.min_size THEN k.min_size ELSE k.env_max
            /\ k.raw_min = <<"1", "7">> => k.min_size = 17
            /\ k.raw_min = <<"-", "7">> => (k.env_min = 0 - 7 /\ k.min_size = 1)
            /\ k.raw_min = <<"0">> => (k.env_min = 0 /\ k.min_size = 1)
            /\ k.raw_min = <<"+", "7">> => k.min_size = 7
            /\ k.raw_max = <<" ", "7">> => k.env_max = 7
            /\ k.raw_max = <<"0", "7">> => k.env_max = 7
            /\ k.raw_max = <<"-", "1">> => (k.env_max = 0 - 1 /\ k.max_size = k.min_size)
            /\ (k.raw_min = None /\ k.raw_max = None) =>
                    (k.min_size = 1 /\ k.max_size = 5)

\* C9 witness: a pool was constructed from a maximum below the minimum.
C9_Witness ==
    \E i \in 1..Len(constructed) :
        /\ constructed[i].env_min > 1
        /\ constructed[i].env_max < constructed[i].env_min
        /\ constructed[i].max_size = constructed[i].min_size

\* A string Python's int() accepts: optional blanks, an optional sign, then
\* digits with single underscores between digits, then optional blanks.
IsIntegerLiteral(raw) ==
    \E i, j \in 1..Len(raw) :
        /\ i <= j
        /\ \A k \in 1..Len(raw) : (k < i \/ k > j) => raw[k] = " "
        /\ LET first == IF raw[i] \in {"+", "-"} THEN i + 1 ELSE i
           IN  /\ first <= j
               /\ raw[first] \in Digits /\ raw[j] \in Digits
               /\ \A k \in first..j : raw[k] \in Digits \cup {"_"}
               /\ \A k \in first..(j - 1) : ~(raw[k] = "_" /\ raw[k + 1] = "_")

Unusable(raw) == raw = None \/ ~IsIntegerLiteral(raw)

\* C10: a pool-size variable that is unset or is no integer literal resolves
\* to its default (1 for the minimum, 5 for the maximum), the pool is
\* constructed from the resolved values, and no ValueError is ever raised.
C10_MalformedSizes ==
    /\ \A i \in 1..Len(constructed) :
        LET k == constructed[i]
        IN  /\ Unusable(k.raw_min) => (k.env_min = 1 /\ k.min_size = 1)
            /\ Unusable(k.raw_max) => (k.env_max = 5 /\ k.max_size = max(k.min_size, 5))
    /\ \A t \in Threads :
        /\ frame[t].exc # "ValueError"
        /\ (pc[t] = "gp_unlock" /\ _POOL = NoPool) =>
                (frame[t].exc = "PoolError" /\ constructed # <<>>)
    /\ last.exc # "ValueError"

\* C10 witness: the pool was installed with sizes 1 and 5 from a minimum that
\* is malformed and a maximum that is unset.
C10_Witness ==
    \E i \in 1..Len(constructed) :
        /\ constructed[i].ok /\ _POOL = i
        /\ constructed[i].raw_min = <<"1", "_">>
        /\ constructed[i].raw_max = None
        /\ constructed[i].min_size = 1 /\ constructed[i].max_size = 5

\* ----------------------------------------------------------- fetch_value
Executes(l) == Count(l, {"execute_ok", "execute_failed"})
\* Scopes opened (or tried) by the call that left the log l.
Opens(l) == Count(l, {"connect", "connect_failed", "getconn", "getconn_failed"})
\* The step just taken finished a fetch_value call whose block ran.
FetchRan == last.op = "fetch_value" /\ Has(last.log, "cursor")

\* C11: a fetch_value call opens one scope and never switches the connection
\* to dict rows, executes the query exactly once when its block runs, and
\* fetches at most one row; when it returns, the value is None for a result
\* without rows and the first column of the first row for a result with rows
\* (None when the row has no column), whatever the other rows and columns.
C11_FetchValue ==
    last.op = "fetch_value" =>
        /\ Opens(last.log) <= 1
        /\ ~Has(last.log, "set_row_factory")
        /\ FetchRan =>
            /\ Opens(last.log) = 1
            /\ Executes(last.log) = 1
            /\ Count(last.log, {"fetchone"}) <= 1
            /\ Has(last.log, "execute_ok") => Count(last.log, {"fetchone"}) = 1
        /\ (FetchRan /\ last.exc = NoExc) =>
            /\ Len(last.result) = 0 => last.value = PyNone
            /\ (Len(last.result) >= 1 /\ Len(last.result[1]) >= 1) =>
                    last.value = last.result[1][1]
            /\ (Len(last.result) >= 1 /\ Len(last.result[1]) = 0) =>
                    last.value = PyNone
        /\ last.exc # NoExc => last.value = NoValue

\* C11 witness: a result of two rows and two columns whose first cell is a
\* value and whose other cells are None, and the value was returned.
C11_Witness ==
    /\ FetchRan /\ last.exc = NoExc
    /\ Len(last.result) = 2 /\ Len(last.result[1]) = 2
    /\ last.result[1][1] = "a" /\ last.result[1][2] = PyNone
    /\ last.result[2][1] = PyNone
    /\ last.value = "a"

\* C12 (as claimed): a fetch_value call whose query execution failed executed
\* the query once, ends with that failure, returns no value, and its scope
\* rolled back (unless autocommit) and released the connection exactly once.
C12_Original ==
    (last.op = "fetch_value" /\ Has(last.log, "execute_failed")) =>
        /\ Executes(last.log) = 1
        /\ last.exc = "QueryError"
        /\ last.value = NoValue
        /\ ~last.autocommit => Rollbacks(last.log) = 1
        /\ Releases(last.log) = 1

\* C12 (amended): a fetch_value call whose query execution failed executed
\* the query once and fetched nothing, returns no value, never commits, and
\* its scope invoked rollback once (unless autocommit on the pooled path) and
\* released the connection exactly once; the call ends with the query's
\* failure unless the rollback itself failed, in which case it ends with the
\* rollback's error.
C12_ExecutionFailure ==
    (last.op = "fetch_value" /\ Has(last.log, "execute_failed")) =>
        /\ Executes(last.log) = 1
        /\ Count(last.log, {"fetchone"}) = 0
        /\ last.value = NoValue
        /\ Commits(last.log) = 0
        /\ ~last.autocommit => Rollbacks(last.log) = 1
        /\ (last.autocommit /\ last.path = "pooled") => Rollbacks(last.log) = 0
        /\ Releases(last.log) = 1
        /\ last.log[Len(last.log)] = IF last.path = "pooled" THEN "putconn" ELSE "close"
        /\ last.exc = IF Has(last.log, "rollback_failed")
                      THEN "RollbackError" ELSE "QueryError"

\* C12 witness: the execution failed on a pooled connection that is not in
\* autocommit mode; the scope rolled back and the query's failure came out.
C12_Witness ==
    /\ last.op = "fetch_value" /\ Has(last.log, "execute_failed")
    /\ last.path = "pooled" /\ ~last.autocommit
    /\ Has(last.log, "rollback_ok")
    /\ last.exc = "QueryError"

\* ------------------------------------------------- failures inside a scope
\* Position in l of the first entry that is in S (0: none).
First(l, S) == IF \E i \in 1..Len(l) : l[i] \in S
               THEN CHOOSE i \in 1..Len(l) : l[i] \in S /\ \A j \in 1..(i - 1) : l[j] \notin S
               ELSE 0
RollbackCalls == {"rollback_ok", "rollback_failed"}
ReleaseCalls == {"close", "putconn"}

\* C13 (as claimed): a scope whose caller code raised any kind of failure on a
\* connection that is not in autocommit mode invoked rollback before closing
\* or returning the connection, and did not end normally.
C13_Original ==
    (ScopeRan /\ last.body # NoExc /\ ~last.autocommit) =>
        /\ Rollbacks(last.log) = 1
        /\ First(last.log, RollbackCalls) < First(last.log, ReleaseCalls)
        /\ last.exc # NoExc

\* C13 (amended): a scope whose caller code raised never ends normally,
\* whatever the kind of failure. If the failure is an Exception and the
\* connection is not in autocommit mode, rollback was invoked once, before the
\* connection was closed or returned and before anything reached the caller.
\* If the failure is a BaseException that is no Exception, the scope invoked
\* no rollback: the connection was closed or returned and the failure
\* propagated.
C13_RollbackBeforeRelease ==
    (ScopeRan /\ last.body # NoExc) =>
        /\ last.exc # NoExc
        /\ First(last.log, ReleaseCalls) = Len(last.log)
        /\ (IsException(last.body) /\ ~last.autocommit) =>
            /\ Rollbacks(last.log) = 1
            /\ First(last.log, RollbackCalls) > 0
            /\ First(last.log, RollbackCalls) < First(last.log, ReleaseCalls)
        /\ ~IsException(last.body) =>
            /\ Rollbacks(last.log) = 0
            /\ last.exc = last.body

\* C13 witness: the caller raised an Exception in a pooled scope on a
\* connection that is not in autocommit mode; rollback, then the restoration
\* and the return to the pool.
C13_Witness ==
    /\ ScopeRan /\ last.body = "CallerException" /\ ~last.autocommit
    /\ last.log = <<"getconn", "rollback_ok", "restore_row_factory", "putconn">>
    /\ last.exc = "CallerException"

\* C14: a scope in which commit or rollback failed ends with the error of the
\* call that failed last; on the pooled path the row factory was restored
\* once and the connection then returned once, and every connection back in
\* the pool has the pool's row factory; on the unpooled path the connection
\* was closed once, as the last call.
C14_CleanupOnDbFailure ==
    (ScopeRan /\ (Has(last.log, "commit_failed") \/ Has(last.log, "rollback_failed"))) =>
        /\ last.exc = IF Has(last.log, "rollback_failed")
                      THEN "RollbackError" ELSE "CommitError"
        /\ Releases(last.log) = 1
        /\ last.path = "pooled" =>
            /\ Count(last.log, {"restore_row_factory"}) = 1
            /\ Count(last.log, {"putconn"}) = 1
            /\ last.log[Len(last.log) - 1] = "restore_row_factory"
            /\ last.log[Len(last.log)] = "putconn"
            /\ \A c \in ConnIds : pconn[c].owner = 0 => pconn[c].row_factory = tuple_row
        /\ last.path = "unpooled" =>
            /\ Count(last.log, {"close"}) = 1
            /\ last.log[Len(last.log)] = "close"

\* C14 witness: in a pooled scope that requested dict rows, commit failed and
\* then rollback failed; the row factory was restored and the connection
\* returned.
C14_Witness ==
    /\ ScopeRan /\ last.path = "pooled"
    /\ last.log = <<"getconn", "set_row_factory", "commit_failed", "rollback_failed",
                    "restore_row_factory", "putconn">>
    /\ last.exc = "RollbackError"

\* ------------------------------------------------------------- the lock
InGetPool(t) == pc[t] \in {"gp_lock", "gp_locked", "gp_unlock"}

\* C15: the thread holding the pool lock is between the acquisition and the
\* release of lines 57-71, and only such a thread holds it; a call that
\* starts once the pool exists (get_pool, or a scope on the pooled path)
\* never waits for the lock nor takes it, whoever holds it; and no step of a
\* thread that is borrowing, using or returning a connection changes the
\* lock.
C15_LockOnlyForConstruction ==
    /\ [](\A t \in Threads : (_POOL_LOCK = t) <=> pc[t] \in {"gp_locked", "gp_unlock"})
    /\ [][\A t \in Threads :
            (_POOL # NoPool /\ pc[t] = "idle" /\ budget' # budget /\ environ' = environ
                /\ (op'[t] # "none" \/ last'.op # "none")) =>
                /\ ~InGetPool(t)'
                /\ _POOL_LOCK' = _POOL_LOCK
                /\ (op'[t] = "connection_scope" /\ frame'[t].path = "pooled") =>
                        pc'[t] = "cs_borrow"]_vars
    /\ [][\A t \in Threads :
            (pc[t] \in {"cs_borrow", "cs_body"} /\ pc'[t] # pc[t]) =>
                _POOL_LOCK' = _POOL_LOCK]_vars

\* C15 witness: a thread that passed the first check before the pool was
\* installed holds the lock, while another thread is inside a scope on a
\* connection of the installed pool.
C15_Witness ==
    /\ _POOL # NoPool
    /\ \E t, u \in Threads :
        /\ _POOL_LOCK = u /\ pc[u] = "gp_locked"
        /\ pc[t] = "cs_body" /\ frame[t].path = "pooled"

\* ------------------------------------------------ connection parameters
\* The arguments a connect() resolves from the environment as it is now.
ResolvedNow(kwargs) ==
    IF environ["SPEEDLIMIT_DATABASE_URL"] \notin {None, <<>>}
    THEN kwargs.conninfo = environ["SPEEDLIMIT_DATABASE_URL"] /\ kwargs.host = Absent
    ELSE /\ kwargs.conninfo = Absent
         /\ kwargs.host = IF environ["PGHOST"] = None THEN DefaultHost
                          ELSE environ["PGHOST"]

\* C16: once the pool is installed, no step (a change of a connection or
\* pool-size variable, a get_pool call, a scope on either path) replaces the
\* pool, invokes the pool constructor again or alters the sizes and
\* connection arguments the pool was constructed with, and every get_pool
\* call that returns then returns that pool; whereas the connection of every
\* unpooled scope is opened with the arguments resolved from the environment
\* as it is at that entry.
C16_ResolvedOnce ==
    /\ [][_POOL # NoPool =>
            /\ _POOL' = _POOL
            /\ constructed' = constructed
            /\ (last'.op = "get_pool" /\ last'.exc = NoExc) => last'.pool = _POOL
            /\ \A t \in Threads : pc'[t] \in {"cs_borrow", "cs_body"} =>
                    (frame'[t].path = "pooled" => pool'[t] = _POOL)]_vars
    /\ [][\A t \in Threads :
            (pc[t] = "idle" /\ pc'[t] = "cs_body" /\ frame'[t].path = "unpooled") =>
                ResolvedNow(frame'[t].kwargs)]_vars

\* C16 witness: the pool was constructed from the discrete parameters with
\* the default sizes; the connection string and a pool size were set since,
\* and a scope is using a connection of that pool.
C16_Witness ==
    /\ _POOL # NoPool
    /\ constructed[_POOL].conninfo = Absent
    /\ constructed[_POOL].min_size = 1
    /\ environ["SPEEDLIMIT_DATABASE_URL"] = <<"u">>
    /\ environ["SPEEDLIMIT_POOL_MIN_SIZE"] = <<"7">>
    /\ \E t \in Threads : pc[t] = "cs_body" /\ frame[t].path = "pooled" /\ pool[t] = _POOL

\* ------------------------------------------------------ failing to open
\* The step just taken ended a scope at its entry, before the caller's code.
ScopeNotOpened == last.op = "connection_scope" /\ ~ScopeRan

\* C17: a scope that ends at its entry because the connection could not be
\* opened or borrowed made that one attempt and no other call on any
\* connection (no commit, rollback, close, row factory assignment), did not run
\* the caller's code, and ends with the error of the failed call itself: the
\* driver's for connect, the pool's for the borrow or for the construction
\* of the pool; every connection in the pool keeps the pool's row factory.
C17_OpenFailure ==
    ScopeNotOpened =>
        /\ last.body = NoExc
        /\ last.exc # NoExc
        /\ last.path = "unpooled" =>
                (last.log = <<"connect_failed">> /\ last.exc = "OperationalError")
        /\ last.path = "pooled" =>
            \/ last.log = <<"getconn_failed">> /\ last.exc = "PoolTimeout"
            \/ last.log = <<>> /\ last.exc = "PoolError"
        /\ \A c \in ConnIds : pconn[c].owner = 0 => pconn[c].row_factory = tuple_row

\* C17 witness: the borrow from the installed pool failed.
C17_Witness ==
    /\ ScopeNotOpened
    /\ last.log = <<"getconn_failed">> /\ last.exc = "PoolTimeout"
    /\ last.pool # NoPool /\ last.pool = _POOL

\* ------------------------------------------------ failing to construct
Installed == {i \in 1..Len(constructed) : constructed[i].ok}

\* C18: at most one constructor invocation ever succeeded, the singleton is
\* that pool and is unset while none succeeded; the thread whose construction
\* raised is the only one that sees the error, it releases the lock and
\* leaves the singleton as it was when its call ends with that error; and
\* whenever a thread then runs the second check and finds no pool, it invokes
\* the constructor again.
C18_ConstructionFailure ==
    /\ [](/\ Cardinality(Installed) <= 1
          /\ Installed = IF _POOL = NoPool THEN {} ELSE {_POOL}
          /\ \A t \in Threads : frame[t].exc = "PoolError" =>
                (pc[t] = "gp_unlock" /\ _POOL_LOCK = t /\ _POOL = NoPool)
          /\ last.exc = "PoolError" => (last.pool = NoPool /\ _POOL_LOCK = Unlocked))
    /\ [][\A t \in Threads :
            (frame[t].exc = "PoolError" /\ pc'[t] # pc[t]) =>
                /\ _POOL_LOCK' = Unlocked
                /\ _POOL' = NoPool
                /\ last'.exc = "PoolError"
                /\ pc'[t] = "idle"
                /\ \A u \in Threads \ {t} : pc'[u] = pc[u] /\ frame'[u] = frame[u]]_vars
    /\ [][\A t \in Threads :
            (pc[t] = "gp_locked" /\ pc'[t] # pc[t] /\ _POOL = NoPool) =>
                Len(constructed') = Len(constructed) + 1]_vars

\* C18 witness: a construction failed, a later call constructed again and
\* installed the pool.
C18_Witness ==
    /\ Len(constructed) = 2
    /\ ~constructed[1].ok /\ constructed[2].ok
    /\ _POOL = 2
    /\ returned = {2}

\* ------------------------------------------------------------- liveness
\* C19: under fair scheduling, with a pool constructor that terminates, every
\* thread that is inside get_pool (waiting for the lock, under the lock or
\* leaving it) eventually is outside again: its call returned the pool or
\* raised.
C19_GetPoolTerminates ==
    \A t \in Threads : InGetPool(t) ~> ~InGetPool(t)

\* C19 witness: two first-time callers at once, one under the lock before the
\* pool exists and one waiting for the lock.
C19_Witness ==
    /\ _POOL = NoPool
    /\ \E t, u \in Threads : pc[t] = "gp_locked" /\ pc[u] = "gp_lock"

\* ------------------------------------------------------- order of calls
CommitCalls == {"commit_ok", "commit_failed"}

\* C20: in the calls a scope made on its connection, no rollback follows a
\* commit that succeeded, no commit follows a rollback, and nothing follows
\* the close or the return to the pool.
C20_CallOrder ==
    ScopeRan =>
        \A i, j \in 1..Len(last.log) :
            i < j =>
                /\ last.log[i] = "commit_ok" => last.log[j] \notin RollbackCalls
                /\ last.log[i] \in RollbackCalls => last.log[j] \notin CommitCalls
                /\ last.log[i] \notin ReleaseCalls

\* C20 witness: commit failed, rollback followed, then the restoration and
\* the return to the pool.
C20_Witness ==
    /\ ScopeRan
    /\ last.log = <<"getconn", "commit_failed", "rollback_ok",
                    "restore_row_factory", "putconn">>

====
